---- MODULE Spec2Model ----
(***************************************************************************)
(* OptionUniverseSelectionModel (Algorithm.Framework/Selection): a         *)
(* periodic universe-refresh policy.  The model holds the policy's fields, *)
(* the part of the host algorithm the policy reads and writes (clock,      *)
(* default settings and initializer, security registry, heap of security   *)
(* objects, log) and the state of the generator CreateUniverses returns.   *)
(* Time is counted in ticks, TicksPerDay ticks to a calendar day.          *)
(* The host holds one generator at a time: a new call of CreateUniverses   *)
(* drops the previous generator.  The host calls CreateUniverses only when *)
(* its clock has reached GetNextRefreshTimeUtc, at most once per instant.  *)
(***************************************************************************)
EXTENDS Integers, Sequences, FiniteSets, TLC

(* ------------------------------ bounds --------------------------------- *)
TicksPerDay == 2
MaxDays == 2
MaxLen == 3
MaxCalls == 2

MaxTime == MaxDays * TicksPerDay

(* datetime.min, the initial nextRefreshTimeUtc *)
DateTimeMin == 0

(* refreshInterval values: shorter than a day, one day, longer *)
Intervals == {1, TicksPerDay, TicksPerDay + 1}

(* ------------------------------ symbols -------------------------------- *)
DefaultDate == "DefaultDate"
NoUnderlying == <<>>

(* Symbol.Create(ticker, SecurityType.Option, market, alias): the canonical
   option symbol of the underlying `ticker` on `market` *)
SymbolCreate(ticker, market, alias) ==
    [SecurityType |-> "Option", Underlying |-> <<ticker, market>>,
     Market |-> market, Date |-> DefaultDate, Value |-> alias]

(* an option contract: a non-canonical option symbol *)
OptionContract(ticker, market, expiry) ==
    [SecurityType |-> "Option", Underlying |-> <<ticker, market>>,
     Market |-> market, Date |-> expiry, Value |-> ticker \o expiry]

EquitySymbol(ticker, market) ==
    [SecurityType |-> "Equity", Underlying |-> NoUnderlying,
     Market |-> market, Date |-> DefaultDate, Value |-> ticker]

(* symbol.IsCanonical() *)
IsCanonical(symbol) ==
    symbol.SecurityType = "Option" /\ symbol.Underlying # NoUnderlying
        /\ symbol.Date = DefaultDate

(* underlying.Value *)
UnderlyingValue(underlying) == underlying[1]

(* Symbol equality (s.Key == symbol): by identifier, the alias left out *)
SymbolEquals(a, b) ==
    /\ a.SecurityType = b.SecurityType
    /\ a.Underlying = b.Underlying
    /\ a.Market = b.Market
    /\ a.Date = b.Date

(* the symbols a selector may return *)
SymbolPool ==
    { OptionContract("AAPL", "usa", "190118"),
      OptionContract("AAPL", "usa", "190215"),
      SymbolCreate("AAPL", "usa", "AAPL.CHAIN"),
      OptionContract("MSFT", "eurex", "190118"),
      EquitySymbol("MSFT", "usa") }

RECURSIVE SeqsUpTo(_)
SeqsUpTo(n) ==
    IF n = 0 THEN {<<>>}
    ELSE LET shorter == SeqsUpTo(n - 1)
         IN shorter \cup {Append(s, x) : s \in {t \in shorter : Len(t) = n - 1},
                                         x \in SymbolPool}

(* what an optionChainSymbolSelector may return *)
SelectorOutputs == SeqsUpTo(MaxLen)

(* the outputs of the selector of the scheduling scenarios *)
ScheduleOutputs ==
    { <<>>,
      <<OptionContract("AAPL", "usa", "190118"), EquitySymbol("MSFT", "usa")>> }

(* the output of the selector of the settings scenarios *)
SettingsOutputs ==
    { <<OptionContract("AAPL", "usa", "190118"),
        OptionContract("MSFT", "eurex", "190118")>> }

(* ------------------------------ values --------------------------------- *)
None == "None"
ExplicitSettings == "explicitSettings"
ExplicitInitializer == "explicitInitializer"
HostSettings == {"hostSettingsA", "hostSettingsB"}
HostInitializers == {"hostInitializerA", "hostInitializerB"}
HostFilter == "hostFilter"
(* self.Filter, the policy's contract filter function *)
PolicyFilter == "OptionUniverseSelectionModel.Filter"

VARIABLES
    refreshInterval,           \* self.refreshInterval
    optionChainSymbolSelector, \* self.optionChainSymbolSelector: the set of
                               \* outputs the selector function may return
    universeSettings,          \* self.universeSettings (None or explicit)
    securityInitializer,       \* self.securityInitializer (None or explicit)
    nextRefreshTimeUtc,        \* self.nextRefreshTimeUtc
    UtcTime,                   \* algorithm.UtcTime
    EndTime,                   \* the time the host's run ends
    algUniverseSettings,       \* algorithm.UniverseSettings
    algSecurityInitializer,    \* algorithm.SecurityInitializer
    Securities,                \* algorithm.Securities: entries [Key, Value]
    secs,                      \* heap of security objects, by id
    logged,                    \* number of algorithm.Log calls
    selectorCalls,             \* number of optionChainSymbolSelector calls
    pc,                        \* generator: none, created, suspended, done,
                               \* failed
    symbols,                   \* generator: the selector's output
    idx,                       \* generator: position of the loop in symbols
    seen,                      \* generator: uniqueUnderlyingSymbols
    yielded,                   \* generator: universes yielded so far
    err,                       \* generator: the exception that ended it
    calls,                     \* history: number of CreateUniverses calls
    execTimes,                 \* history: UtcTime of every first pull
    lastBuild                  \* history: the last CreateOptionChain

vars == <<refreshInterval, optionChainSymbolSelector, universeSettings,
          securityInitializer, nextRefreshTimeUtc, UtcTime, EndTime,
          algUniverseSettings, algSecurityInitializer, Securities, secs,
          logged, selectorCalls, pc, symbols, idx, seen, yielded, err, calls,
          execTimes, lastBuild>>

policyVars == <<refreshInterval, optionChainSymbolSelector, universeSettings,
                securityInitializer>>
hostVars == <<EndTime, algUniverseSettings, algSecurityInitializer>>
genVars == <<pc, symbols, idx, seen, yielded, err>>

(* ------------------------- pure parts of the code ---------------------- *)
(* datetime.date(): the time-of-day zeroed *)
Date(t) == t - (t % TicksPerDay)

(* variant: the sum is kept with its time-of-day *)
NextRefreshTimeNoDate(t, interval) == t + interval

(* variant: the interval is left out of the sum *)
NextRefreshTimeToday(t, interval) == Date(t)

(* (algorithm.UtcTime + self.refreshInterval).date() *)
NextRefreshTime(t, interval) == Date(t + interval)

(* GetNextRefreshTimeUtc *)
GetNextRefreshTimeUtc == nextRefreshTimeUtc

(* the host scheduler's condition for calling CreateUniverses: the clock
   has reached the next refresh time, and no refresh has run at this very
   instant (the scheduler looks at the schedule once per time step) *)
HostMayRefresh ==
    /\ UtcTime >= GetNextRefreshTimeUtc
    /\ \A k \in 1..Len(execTimes) : execTimes[k] # UtcTime

(* variant: the symbol is used as the selector gave it *)
CanonicalizeNothing(symbol) == symbol

(* rewrite non-canonical symbols to be canonical *)
Canonicalize(symbol) ==
    IF ~IsCanonical(symbol)
    THEN SymbolCreate(UnderlyingValue(symbol.Underlying), symbol.Market,
                      "?" \o UnderlyingValue(symbol.Underlying))
    ELSE symbol

(* variant: a null settings field stands for the default the host had when
   the policy was constructed *)
ResolveSettingsAtInit ==
    IF universeSettings # None THEN universeSettings ELSE "hostSettingsA"

(* resolve defaults if not specified *)
ResolveSettings ==
    IF universeSettings # None THEN universeSettings ELSE algUniverseSettings

ResolveInitializer ==
    IF securityInitializer # None THEN securityInitializer
    ELSE algSecurityInitializer

(* variant: the entries are compared by their value, which no symbol
   equals *)
LookupByValue(symbol) == {s \in Securities : FALSE}

(* [s for s in algorithm.Securities if s.Key == symbol] *)
Lookup(symbol) == {s \in Securities : SymbolEquals(s.Key, symbol)}

(* CreateOptionChainSecurity: the host factory's new security, tradable and
   with the host's filter until the policy configures it *)
CreateOptionChainSecurity(symbol, settings, initializer) ==
    [Symbol |-> symbol, IsTradable |-> TRUE, Filter |-> HostFilter,
     configured |-> <<>>, origin |-> "created"]

(* variant: the security is marked non-tradable before it is configured *)
PostConfigureTradableFirst(security) ==
    LET marked == [security EXCEPT !.IsTradable = FALSE,
                                   !.configured = Append(@, "IsTradable")]
    IN [marked EXCEPT !.Filter = PolicyFilter,
                      !.configured = Append(@, "SetFilter")]

(* optionChain.SetFilter(self.Filter); optionChain.IsTradable = False *)
PostConfigure(security) ==
    LET filtered == [security EXCEPT !.Filter = PolicyFilter,
                                     !.configured = Append(@, "SetFilter")]
    IN [filtered EXCEPT !.IsTradable = FALSE,
                        !.configured = Append(@, "IsTradable")]

(* whether the object bound to optionChain is a security: the factory's
   result is; securities[0] is an entry of the registry (it has Key and
   Value), which has neither SetFilter nor IsTradable *)
IsSecurityObject(optionChain) == optionChain.kind = "Security"

NoUniverse == [Option |-> 0, UniverseSettings |-> None,
               SecurityInitializer |-> None]

(* CreateOptionChain(algorithm, symbol): its outcome, the heap after it,
   the universe it returns and the number of lines it logs *)
CreateOptionChain(symbol) ==
    IF symbol.SecurityType # "Option"
    THEN [outcome |-> "ValueError", heap |-> secs, universe |-> NoUniverse,
          logs |-> 0, canonical |-> symbol, found |-> FALSE, sec |-> 0]
    ELSE
    LET canonical == Canonicalize(symbol)
        settings == ResolveSettings
        initializer == ResolveInitializer
        securities == Lookup(canonical)
        isNew == securities = {}
        optionChain ==
            IF isNew
            THEN [kind |-> "Security", id |-> Len(secs) + 1]
            ELSE [kind |-> "KeyValuePair",
                  id |-> (CHOOSE s \in securities : TRUE).Value]
        heap == IF isNew
                THEN Append(secs, CreateOptionChainSecurity(
                                      canonical, settings, initializer))
                ELSE secs
    IN IF IsSecurityObject(optionChain)
       THEN [outcome |-> "return",
             heap |-> [heap EXCEPT ![optionChain.id] = PostConfigure(@)],
             universe |-> [Option |-> optionChain.id,
                           UniverseSettings |-> settings,
                           SecurityInitializer |-> initializer],
             logs |-> 2, canonical |-> canonical, found |-> ~isNew,
             sec |-> optionChain.id]
       ELSE [outcome |-> "AttributeError", heap |-> heap,
             universe |-> NoUniverse, logs |-> 2, canonical |-> canonical,
             found |-> ~isNew, sec |-> optionChain.id]

(* variant: every option symbol gets a chain *)
FirstSeenAlways(symbol, seenSet) == TRUE

(* prevent creating duplicate option chains -- one per underlying *)
FirstSeen(symbol, seenSet) == symbol.Underlying \notin seenSet

(* variant: a symbol that is no option is passed over *)
RECURSIVE NextEventSkipping(_, _, _)
NextEventSkipping(syms, i, seenSet) ==
    IF i > Len(syms) THEN [kind |-> "stop", at |-> i]
    ELSE IF syms[i].SecurityType # "Option"
         THEN NextEventSkipping(syms, i + 1, seenSet)
    ELSE IF FirstSeen(syms[i], seenSet) THEN [kind |-> "yield", at |-> i]
    ELSE NextEventSkipping(syms, i + 1, seenSet)

(* the for loop from position i: where it next raises, yields or ends *)
RECURSIVE NextEvent(_, _, _)
NextEvent(syms, i, seenSet) ==
    IF i > Len(syms) THEN [kind |-> "stop", at |-> i]
    ELSE IF syms[i].SecurityType # "Option" THEN [kind |-> "raise", at |-> i]
    ELSE IF FirstSeen(syms[i], seenSet) THEN [kind |-> "yield", at |-> i]
    ELSE NextEvent(syms, i + 1, seenSet)

NoSymbol == EquitySymbol("", "")
(* lastBuild: the symbol CreateOptionChain was given, its canonical symbol,
   whether the registry held an entry for it, how the call ended, the id of
   the security it resolved or constructed, whether it constructed one,
   and the id of the security the returned universe wraps (0: none
   returned) *)
NoBuild == [symbol |-> NoSymbol, canonical |-> NoSymbol, found |-> FALSE,
            outcome |-> "none", sec |-> 0, created |-> FALSE, wraps |-> 0]

(* the generator's loop from position i of `syms` to its next suspension,
   end or exception; `lines` is the log count when the loop is entered *)
RunLoop(syms, i, seenSet, lines) ==
    LET ev == NextEvent(syms, i, seenSet)
    IN CASE ev.kind = "stop" ->
              /\ pc' = "done" /\ idx' = Len(syms) + 1 /\ err' = None
              /\ logged' = lines
              /\ UNCHANGED <<seen, yielded, secs, lastBuild>>
         [] ev.kind = "raise" ->
              /\ pc' = "failed" /\ idx' = ev.at /\ err' = "ValueError"
              /\ logged' = lines
              /\ UNCHANGED <<seen, yielded, secs, lastBuild>>
         [] ev.kind = "yield" ->
              LET r == CreateOptionChain(syms[ev.at])
              IN /\ idx' = ev.at
                 /\ seen' = seenSet \cup {syms[ev.at].Underlying}
                 /\ secs' = r.heap
                 /\ logged' = lines + r.logs
                 /\ lastBuild' = [symbol |-> syms[ev.at],
                                  canonical |-> r.canonical, found |-> r.found,
                                  outcome |-> r.outcome, sec |-> r.sec,
                                  created |-> Len(r.heap) > Len(secs),
                                  wraps |-> r.universe.Option]
                 /\ IF r.outcome = "return"
                    THEN /\ pc' = "suspended" /\ err' = None
                         /\ yielded' = Append(yielded, r.universe)
                    ELSE /\ pc' = "failed" /\ err' = r.outcome
                         /\ UNCHANGED yielded

(* ------------------------------- Init ---------------------------------- *)
HostSecurity(symbol) ==
    [Symbol |-> symbol, IsTradable |-> TRUE, Filter |-> HostFilter,
     configured |-> <<>>, origin |-> "host"]

(* the registry before the policy runs: empty, or holding the canonical
   AAPL chain security the algorithm added itself *)
InitRegistry ==
    \/ Securities = {} /\ secs = <<>>
    \/ /\ secs = <<HostSecurity(SymbolCreate("AAPL", "usa", "?AAPL"))>>
       /\ Securities = {[Key |-> SymbolCreate("AAPL", "usa", "?AAPL"),
                         Value |-> 1]}

(* __init__ and the host before the first call *)
InitState ==
    /\ nextRefreshTimeUtc = DateTimeMin
    /\ UtcTime = 0
    /\ algUniverseSettings = "hostSettingsA"
    /\ algSecurityInitializer = "hostInitializerA"
    /\ logged = 0 /\ selectorCalls = 0
    /\ pc = "none" /\ symbols = <<>> /\ idx = 0 /\ seen = {}
    /\ yielded = <<>> /\ err = None
    /\ calls = 0 /\ execTimes = <<>> /\ lastBuild = NoBuild

(* scheduling scenarios: every interval, a run of MaxDays days *)
InitSchedule ==
    /\ refreshInterval \in Intervals
    /\ optionChainSymbolSelector = ScheduleOutputs
    /\ universeSettings = None /\ securityInitializer = None
    /\ EndTime = MaxTime
    /\ Securities = {} /\ secs = <<>>

(* settings scenarios: explicit or null settings and initializer *)
InitSettings ==
    /\ refreshInterval = 1
    /\ optionChainSymbolSelector = SettingsOutputs
    /\ universeSettings \in {None, ExplicitSettings}
    /\ securityInitializer \in {None, ExplicitInitializer}
    /\ EndTime = 1
    /\ Securities = {} /\ secs = <<>>

(* chain scenarios: a selector with any one output, any registry *)
InitChains ==
    /\ refreshInterval = 1
    /\ \E out \in SelectorOutputs : optionChainSymbolSelector = {out}
    /\ universeSettings = None /\ securityInitializer = None
    /\ EndTime = 1
    /\ InitRegistry

Init == InitState /\ (InitSchedule \/ InitSettings \/ InitChains)

(* ------------------------------ actions -------------------------------- *)
(* variant: CreateUniverses as a plain function, whose first lines run at
   the call *)
CallCreateUniversesEager ==
    /\ calls < MaxCalls
    /\ HostMayRefresh
    /\ calls' = calls + 1
    /\ nextRefreshTimeUtc' = NextRefreshTime(UtcTime, refreshInterval)
    /\ logged' = logged + 1
    /\ pc' = "created" /\ symbols' = <<>> /\ idx' = 0 /\ seen' = {}
    /\ yielded' = <<>> /\ err' = None
    /\ UNCHANGED <<policyVars, hostVars, UtcTime, Securities, secs,
                   selectorCalls, execTimes, lastBuild>>

(* the host calls CreateUniverses(algorithm): a generator is created and
   none of the body runs *)
CallCreateUniverses ==
    /\ calls < MaxCalls
    /\ HostMayRefresh
    /\ calls' = calls + 1
    /\ pc' = "created" /\ symbols' = <<>> /\ idx' = 0 /\ seen' = {}
    /\ yielded' = <<>> /\ err' = None
    /\ UNCHANGED <<policyVars, hostVars, nextRefreshTimeUtc, UtcTime,
                   Securities, secs, logged, selectorCalls, execTimes,
                   lastBuild>>

(* the first pull: the body runs from its first line to the first yield,
   the end of the loop or an exception *)
StartIteration ==
    /\ pc = "created"
    /\ nextRefreshTimeUtc' = NextRefreshTime(UtcTime, refreshInterval)
    /\ execTimes' = Append(execTimes, UtcTime)
    /\ selectorCalls' = selectorCalls + 1
    /\ \E out \in optionChainSymbolSelector :
          /\ symbols' = out
          /\ RunLoop(out, 1, {}, logged + 1)
    /\ UNCHANGED <<policyVars, hostVars, UtcTime, Securities, calls>>

(* a later pull: the loop goes on after the yield *)
ResumeIteration ==
    /\ pc = "suspended"
    /\ RunLoop(symbols, idx + 1, seen, logged)
    /\ UNCHANGED <<policyVars, hostVars, nextRefreshTimeUtc, UtcTime,
                   Securities, selectorCalls, symbols, calls, execTimes>>

(* the host clock moves forward *)
Tick ==
    /\ UtcTime < EndTime
    /\ UtcTime' = UtcTime + 1
    /\ UNCHANGED <<policyVars, hostVars, nextRefreshTimeUtc, Securities, secs,
                   logged, selectorCalls, genVars, calls, execTimes,
                   lastBuild>>

(* the host changes its default universe settings, its default security
   initializer or both *)
HostSetDefaults ==
    /\ algUniverseSettings = "hostSettingsA"
    /\ algSecurityInitializer = "hostInitializerA"
    /\ \E s \in HostSettings, i \in HostInitializers :
          /\ <<s, i>> # <<algUniverseSettings, algSecurityInitializer>>
          /\ algUniverseSettings' = s
          /\ algSecurityInitializer' = i
    /\ UNCHANGED <<policyVars, EndTime, nextRefreshTimeUtc, UtcTime,
                   Securities, secs, logged, selectorCalls, genVars, calls,
                   execTimes, lastBuild>>

(* the host registers a chain security the policy constructed *)
HostRegister ==
    /\ \E id \in 1..Len(secs) :
          /\ secs[id].origin = "created"
          /\ Lookup(secs[id].Symbol) = {}
          /\ Securities' = Securities \cup
                             {[Key |-> secs[id].Symbol, Value |-> id]}
    /\ UNCHANGED <<policyVars, hostVars, nextRefreshTimeUtc, UtcTime, secs,
                   logged, selectorCalls, genVars, calls, execTimes,
                   lastBuild>>

Next ==
    \/ CallCreateUniverses
    \/ StartIteration
    \/ ResumeIteration
    \/ Tick
    \/ HostSetDefaults
    \/ HostRegister

Spec == Init /\ [][Next]_vars

(* ------------------------------ properties ----------------------------- *)
(* the start of the calendar day of t *)
DayStart(t) == TicksPerDay * (t \div TicksPerDay)

(* the generator has been pulled at least once *)
Started == pc \in {"suspended", "done", "failed"}

(* UtcTime at the first pull of the current generator *)
StartTime == execTimes[Len(execTimes)]

(* C1 as stated: after every call of CreateUniverses at time t,
   GetNextRefreshTimeUtc is date(t + refreshInterval). *)
C1_AdvancedByEveryCall ==
    [][calls' = calls + 1 =>
          nextRefreshTimeUtc' = DayStart(UtcTime + refreshInterval)]_vars

(* C1 amended: once the sequence CreateUniverses returned has been pulled,
   GetNextRefreshTimeUtc is date(t + refreshInterval), t the host clock at
   the first pull, whatever the time-of-day of t and whatever the selector
   returned. *)
C1_AdvancedAfterFirstPull ==
    Started => GetNextRefreshTimeUtc = DayStart(StartTime + refreshInterval)

(* a pull at a time of day other than midnight whose sum with the interval
   is no midnight either *)
C1_Witness ==
    /\ Started
    /\ StartTime % TicksPerDay # 0
    /\ (StartTime + refreshInterval) % TicksPerDay # 0
    /\ refreshInterval > 0

(* C2 as stated: for every refreshInterval, no two refresh executions occur
   on the same calendar date. *)
C2_OncePerDayAnyInterval ==
    \A i, j \in 1..Len(execTimes) :
        i < j => DayStart(execTimes[i]) # DayStart(execTimes[j])

(* C2 amended: for a refreshInterval of at least one day, no two refresh
   executions occur on the same calendar date. *)
C2_OncePerDayFromOneDay ==
    refreshInterval >= TicksPerDay =>
        \A i, j \in 1..Len(execTimes) :
            i < j => DayStart(execTimes[i]) # DayStart(execTimes[j])

(* two executions under an interval of at least one day *)
C2_Witness == refreshInterval >= TicksPerDay /\ Len(execTimes) >= 2

(* C10: a call of CreateUniverses that is not pulled changes neither
   nextRefreshTimeUtc nor the selector's call count nor the log; the first
   pull advances nextRefreshTimeUtc from the clock at that pull, calls the
   selector once and logs; after it nextRefreshTimeUtc stays as advanced
   through every later pull, early stop and failure of that generator. *)
C10_BodyRunsAtFirstPull ==
    [][/\ pc' = "created" =>
            /\ nextRefreshTimeUtc' = nextRefreshTimeUtc
            /\ selectorCalls' = selectorCalls
            /\ logged' = logged
       /\ (pc = "created" /\ pc' # "created") =>
            /\ nextRefreshTimeUtc' = DayStart(UtcTime + refreshInterval)
            /\ selectorCalls' = selectorCalls + 1
            /\ logged' > logged
       /\ (Started /\ pc' \in {"suspended", "done", "failed"}) =>
            /\ nextRefreshTimeUtc' = nextRefreshTimeUtc
            /\ selectorCalls' = selectorCalls]_vars

(* a generator called after the clock has moved on and not pulled yet: an
   advance at the call would have changed nextRefreshTimeUtc *)
C10_Witness ==
    /\ pc = "created"
    /\ UtcTime > 0
    /\ nextRefreshTimeUtc # DayStart(UtcTime + refreshInterval)
    /\ selectorCalls = 0 /\ logged = 0

(* the underlyings of the first n symbols of the selector's output *)
UnderlyingsBefore(n) == {symbols[k].Underlying : k \in 1..(n - 1)}

(* the universes yielded so far whose security is a chain of underlying u *)
YieldedFor(u) ==
    {j \in 1..Len(yielded) : secs[yielded[j].Option].Symbol.Underlying = u}

(* the positions of the symbols of the output that are no option symbols *)
NonOptions == {k \in 1..Len(symbols) : symbols[k].SecurityType # "Option"}

(* the position of the first of them *)
FirstNonOption == CHOOSE k \in NonOptions : \A m \in NonOptions : k <= m

(* C3: a refresh whose selector output holds option symbols only and which
   the consumer has pulled to its end has yielded exactly one universe for
   each distinct underlying of the output, in the first call and in every
   later call alike. *)
C3_OneChainPerUnderlying ==
    (pc = "done" /\ NonOptions = {}) =>
        /\ \A u \in UnderlyingsBefore(Len(symbols) + 1) :
              Cardinality(YieldedFor(u)) = 1
        /\ Len(yielded) = Cardinality(UnderlyingsBefore(Len(symbols) + 1))

(* a second refresh pulled to its end, its output holding two symbols of
   one underlying, an underlying the first refresh saw as well *)
C3_Witness ==
    /\ calls = 2 /\ pc = "done"
    /\ Len(symbols) > Cardinality(UnderlyingsBefore(Len(symbols) + 1))
    /\ Len(yielded) >= 1
    /\ Len(secs) > Len(yielded)

(* C4: when the selector output holds a symbol that is no option symbol,
   the refresh never ends normally and never goes past the first such
   symbol; it raises ValueError exactly when the loop is at that symbol, and
   then it has yielded exactly one universe for each distinct underlying of
   the symbols before it and none for it or for what follows it. *)
C4_FailsAtFirstNonOption ==
    Started =>
        /\ err = "ValueError" <=>
              (NonOptions # {} /\ pc = "failed" /\ idx = FirstNonOption)
        /\ NonOptions # {} =>
              /\ pc # "done"
              /\ idx <= FirstNonOption
              /\ Len(yielded) <= Cardinality(UnderlyingsBefore(FirstNonOption))
              /\ err = "ValueError" =>
                    /\ \A u \in UnderlyingsBefore(FirstNonOption) :
                          Cardinality(YieldedFor(u)) = 1
                    /\ Len(yielded) =
                          Cardinality(UnderlyingsBefore(FirstNonOption))

(* two option symbols of AAPL, then the MSFT equity: one universe, for
   AAPL, then ValueError *)
C4_Witness ==
    /\ symbols = <<OptionContract("AAPL", "usa", "190118"),
                   OptionContract("AAPL", "usa", "190215"),
                   EquitySymbol("MSFT", "usa")>>
    /\ pc = "failed" /\ err = "ValueError" /\ idx = 3
    /\ Len(yielded) = 1
    /\ secs[yielded[1].Option].Symbol.Underlying = <<"AAPL", "usa">>

(* C5: a CreateOptionChain that finds an entry of the registry keyed by the
   canonical symbol constructs no security and returns a universe that
   wraps the security of that entry; one that finds none constructs one. *)
C5_ReusesRegisteredSecurity ==
    lastBuild.outcome # "none" =>
        /\ lastBuild.created <=> ~lastBuild.found
        /\ lastBuild.found =>
              /\ lastBuild.outcome = "return"
              /\ lastBuild.wraps = lastBuild.sec
              /\ \E s \in Securities :
                    /\ SymbolEquals(s.Key, lastBuild.canonical)
                    /\ s.Value = lastBuild.wraps

(* the securities the policy constructed *)
Constructed == {i \in 1..Len(secs) : secs[i].origin = "created"}

(* C6 as stated: the policy constructs at most one chain security for a
   canonical symbol, and all the universes for that symbol wrap it. *)
C6_NeverDuplicated ==
    /\ \A i, j \in Constructed :
          SymbolEquals(secs[i].Symbol, secs[j].Symbol) => i = j
    /\ \A j \in 1..Len(yielded), i \in Constructed :
          SymbolEquals(secs[i].Symbol, secs[yielded[j].Option].Symbol)
              => yielded[j].Option = i

(* C6 amended: the policy constructs a chain security for a canonical
   symbol only while the registry holds no entry for that symbol; it
   registers nothing itself, so what it constructed before does not count
   until the host has registered it. *)
C6_ConstructsOnlyUnregistered ==
    [][Len(secs') > Len(secs) =>
          /\ \A s \in Securities :
                ~SymbolEquals(s.Key, secs'[Len(secs')].Symbol)
          /\ Securities' = Securities]_vars

(* a CreateOptionChain that found the security an earlier call constructed,
   registered by the host since, and constructed none *)
C6_Witness ==
    /\ lastBuild.found /\ ~lastBuild.created
    /\ lastBuild.sec \in Constructed
    /\ Cardinality(Constructed) = 1

(* C7: after a CreateOptionChain that returned, the security of its
   universe is not tradable, its filter is the policy's Filter, and the
   filter was attached before the security was marked. *)
C7_FilterThenNonTradable ==
    /\ lastBuild.outcome = "return" =>
          /\ secs[lastBuild.wraps].IsTradable = FALSE
          /\ secs[lastBuild.wraps].Filter = PolicyFilter
          /\ secs[lastBuild.wraps].configured = <<"SetFilter", "IsTradable">>
    /\ \A j \in 1..Len(yielded) :
          /\ secs[yielded[j].Option].IsTradable = FALSE
          /\ secs[yielded[j].Option].Filter = PolicyFilter

(* a CreateOptionChain that returned a universe *)
C7_Witness ==
    /\ lastBuild.outcome = "return" /\ lastBuild.created
    /\ secs[lastBuild.wraps].IsTradable = FALSE
    /\ Len(yielded) = 2

(* C8: the security of the universe a CreateOptionChain returned has a
   canonical symbol: for a contract of underlying U on market M the
   canonical option symbol of U on M with alias "?" and U's value, for a
   canonical symbol that symbol itself. *)
C8_CanonicalSymbol ==
    lastBuild.outcome = "return" =>
        LET given == lastBuild.symbol
            used == secs[lastBuild.wraps].Symbol
        IN /\ used.SecurityType = "Option"
           /\ used.Date = DefaultDate
           /\ used.Underlying = given.Underlying
           /\ used.Market = given.Market
           /\ given.Date # DefaultDate =>
                 used.Value = "?" \o given.Underlying[1]
           /\ given.Date = DefaultDate => used = given

(* a contract of MSFT on eurex rewritten to ?MSFT on eurex *)
C8_Witness ==
    /\ lastBuild.outcome = "return"
    /\ lastBuild.symbol = OptionContract("MSFT", "eurex", "190118")
    /\ secs[lastBuild.wraps].Symbol = SymbolCreate("MSFT", "eurex", "?MSFT")

(* C9: the universe of every CreateOptionChain carries the policy's explicit
   settings (initializer) when the policy has them, and otherwise the
   host's default settings (initializer) as they are at that call. *)
C9_ResolvedAtEachBuild ==
    [][Len(yielded') = Len(yielded) + 1 =>
          LET universe == yielded'[Len(yielded')]
          IN /\ universe.UniverseSettings =
                   IF universeSettings = None THEN algUniverseSettings
                   ELSE universeSettings
             /\ universe.SecurityInitializer =
                   IF securityInitializer = None THEN algSecurityInitializer
                   ELSE securityInitializer]_vars

(* a policy with null settings and an explicit initializer, in its second
   refresh: the host changed its default settings between the two chains *)
C9_Witness ==
    /\ universeSettings = None /\ securityInitializer = ExplicitInitializer
    /\ calls = 2 /\ Len(yielded) = 2
    /\ yielded[1].UniverseSettings = "hostSettingsA"
    /\ yielded[2].UniverseSettings = "hostSettingsB"
    /\ yielded[2].SecurityInitializer = ExplicitInitializer
====
